---- MODULE Spec2Model ----
(***************************************************************************)
(* Content-based movie recommender (src/src/recommender/content_based.py)  *)
(* with the storage it reads.  Storage is the three relations the          *)
(* recommender queries (movies, movie_ratings, viewing_history); the       *)
(* recommender is the object built once at startup (snapshot, the two      *)
(* lookup indices and the TF-IDF matrix).  Scores are fixed-point          *)
(* integers: natural logarithms in hundredths, unit vectors and cosines    *)
(* in thousandths.  Beside the service the module holds the import        *)
(* script (scripts/process_imdb_data.py), the user generator               *)
(* (scripts/generate_user_data.py) and the request handlers of the API     *)
(* with the database connection each of them opens.                        *)
(***************************************************************************)
EXTENDS Integers, Sequences, FiniteSets, TLC

VARIABLES movies, movie_ratings, viewing_history, startup, recommender,
          argsort_ties, res

\* the import script: its batch size, the CSV files it reads, the tables
\* it writes, the file it is at, the id sets shared by the batch workers
\* and the workers themselves
VARIABLES BATCH_SIZE, csv_files, tables, task, existing_ids,
          existing_person_ids, batches

\* one call of read_csv_in_batches, one run of the user generator, and the
\* request a handler of the API has last answered
VARIABLES reading, gen, http

importer == <<csv_files, tables, task, existing_ids, existing_person_ids, batches>>

scripts == <<BATCH_SIZE, importer, reading, gen>>

vars == <<movies, movie_ratings, viewing_history, startup, recommender,
          argsort_ties, res, scripts, http>>

service == <<movies, movie_ratings, viewing_history, startup, recommender,
             argsort_ties, res>>

storage == <<movies, movie_ratings, viewing_history>>

(***************************************************************************)
(* Bounds of the model.                                                    *)
(***************************************************************************)
\* number of rows of the movies table
NumMovies == 3
\* requests carry a limit in 0..MaxLimit
MaxLimit == 2
\* BATCH_SIZE is drawn from 1..MaxBatchSize
MaxBatchSize == 2
\* lines of the CSV file read_csv_in_batches is called on
MaxLines == 4
\* max_entries is None or in 0..MaxEntries
MaxEntries == 3
\* process_all_files is run up to MaxRuns times on the same files
MaxRuns == 2
\* --num_users is in 0..MaxNumUsers, --num_views in 0..MaxNumViews
MaxNumUsers == 2
MaxNumViews == 1

(***************************************************************************)
(* Program constants.                                                      *)
(***************************************************************************)
\* WHERE mr.num_votes > 1000 (snapshot query and history query)
SnapshotVotes == 1000
\* WHERE mr.num_votes > 10000 (popularity fallback)
PopularVotes == 10000

\* limit: int = 10, the default of the three methods
DefaultLimit == 10

\* MAX_ENTRIES_PER_FILE: int = 100000
MAX_ENTRIES_PER_FILE == 100000

MovieIds == 1 .. NumMovies
\* ids a request may name: every stored id and one id no table holds
RequestIds == 1 .. (NumMovies + 1)
Users == {"u1"}
Limits == 0 .. MaxLimit
NULL == "NULL"
None == "None"

(***************************************************************************)
(* Helpers on finite sets and sequences.                                   *)
(***************************************************************************)
Range(s) == {s[i] : i \in DOMAIN s}

RECURSIVE SumOver(_, _)
SumOver(S, f) ==
    IF S = {} THEN 0
    ELSE LET x == CHOOSE y \in S : TRUE
         IN  f[x] + SumOver(S \ {x}, f)

\* the sequences that enumerate the set S without repetition
SeqsOf(S) ==
    {s \in [1 .. Cardinality(S) -> S] : \A i, j \in DOMAIN s : i # j => s[i] # s[j]}

Cycle(p, m) == p[((m - 1) % Len(p)) + 1]

Min(a, b) == IF a <= b THEN a ELSE b

RECURSIVE ISqrtIter(_, _, _)
ISqrtIter(n, lo, hi) ==
    IF lo >= hi THEN lo
    ELSE LET mid == (lo + hi + 1) \div 2
         IN  IF mid * mid <= n THEN ISqrtIter(n, mid, hi)
             ELSE ISqrtIter(n, lo, mid - 1)

\* floor of the square root
ISqrt(n) == ISqrtIter(n, 0, Min(n, 46340))

(***************************************************************************)
(* Storage fixtures: the rows Init draws the three tables from.            *)
(***************************************************************************)
ActionThriller == [title |-> <<"Action">>, genres |-> <<"Thriller">>]
ActionComedy   == [title |-> <<"Action">>, genres |-> <<"Comedy">>]
RomanceDrama   == [title |-> <<"Romance">>, genres |-> <<"Drama">>]
TheOnly        == [title |-> <<"The">>, genres |-> NULL]
XOnly          == [title |-> <<"X">>, genres |-> <<"The">>]

CatalogPatterns ==
    << <<ActionThriller, ActionComedy, RomanceDrama>>,
       <<ActionComedy, ActionThriller, ActionComedy>>,
       <<TheOnly, XOnly, ActionThriller>> >>

VotePatterns ==
    << <<PopularVotes + 1>>,
       <<SnapshotVotes + 1>>,
       <<SnapshotVotes>>,
       <<PopularVotes + 1, PopularVotes, SnapshotVotes>>,
       <<SnapshotVotes, PopularVotes + 1, PopularVotes + 1>> >>

RatingPatterns == << <<6, 7, 8>>, <<8, 7, 6>>, <<7>> >>

(***************************************************************************)
(* Text vectorizer: TfidfVectorizer(stop_words='english').fit_transform    *)
(***************************************************************************)
\* f"{movie['title']} {movie['genres']}": a NULL genres formats as "None"
movie_text(movie) ==
    movie.title \o (IF movie.genres = NULL THEN <<"None">> ELSE movie.genres)

LowerCase ==
    ("Action" :> "action") @@ ("Thriller" :> "thriller") @@
    ("Comedy" :> "comedy") @@ ("Romance" :> "romance") @@
    ("Drama" :> "drama") @@ ("The" :> "the") @@ ("X" :> "x") @@
    ("None" :> "none")

\* the entries of the English stop-word list that occur in the fixtures
StopWords == {"the", "none"}

\* token_pattern \b\w\w+\b keeps words of two or more characters
TwoOrMoreChars(w) == w # "x"

IsTerm(w) == TwoOrMoreChars(w) /\ w \notin StopWords

Tokens(text) ==
    LET lowered == [i \in DOMAIN text |-> LowerCase[text[i]]]
    IN  SelectSeq(lowered, IsTerm)

TermCount(t, toks) == Cardinality({i \in DOMAIN toks : toks[i] = t})

\* 100 * ln(n), rounded, for n = 1..8
LnCenti == <<0, 69, 110, 139, 161, 179, 195, 208>>

Vocabulary(texts) == UNION {Range(Tokens(texts[i])) : i \in DOMAIN texts}

\* smoothed idf: ln((1 + n) / (1 + df)) + 1, in hundredths
Idf(t, texts) ==
    LET n  == Len(texts)
        df == Cardinality({i \in DOMAIN texts : t \in Range(Tokens(texts[i]))})
    IN  LnCenti[1 + n] - LnCenti[1 + df] + 100

Dot(x, y) == SumOver(DOMAIN x, [t \in DOMAIN x |-> x[t] * y[t]])

\* L2 normalisation to a unit vector in thousandths; a zero vector stays zero
L2Normalize(x) ==
    LET norm == ISqrt(Dot(x, x))
    IN  IF norm = 0 THEN x
        ELSE [t \in DOMAIN x |-> (x[t] * 1000) \div norm]

\* one L2-normalised tf * idf row per document, columns are the vocabulary
fit_transform(texts) ==
    LET vocab == Vocabulary(texts)
    IN  [i \in DOMAIN texts |->
            L2Normalize([t \in vocab |->
                TermCount(t, Tokens(texts[i])) * Idf(t, texts)])]

(***************************************************************************)
(* Similarity engine                                                       *)
(***************************************************************************)
\* cosine of two vectors in thousandths; 0 when either vector is zero
Cosine(x, y) ==
    LET nx == ISqrt(Dot(x, x))
        ny == ISqrt(Dot(y, y))
    IN  IF nx = 0 \/ ny = 0 THEN 0
        ELSE (Dot(x, y) * 1000) \div (nx * ny)

\* cosine_similarity(query, matrix).flatten()
cosine_similarity(query, matrix) ==
    [i \in DOMAIN matrix |-> Cosine(query, matrix[i])]

\* np.mean(rows, axis=0)
Mean(matrix, indices) ==
    LET some == CHOOSE i \in indices : TRUE
    IN  [t \in DOMAIN matrix[some] |->
            SumOver(indices, [i \in indices |-> matrix[i][t]])
                \div Cardinality(indices)]

\* np.argsort(-scores): positions by descending score.  The default sort
\* kind is not stable: the place of equal scores is decided by the sorting
\* routine of the build, here the rank ties gives to each position.
argsort_desc(scores, ties) ==
    LET Before(i, j) ==
            \/ scores[i] > scores[j]
            \/ scores[i] = scores[j] /\ ties[i] < ties[j]
        Place(i) == 1 + Cardinality({j \in DOMAIN scores : Before(j, i)})
    IN  [k \in DOMAIN scores |-> CHOOSE i \in DOMAIN scores : Place(i) = k]

(***************************************************************************)
(* Query interface: the SELECT statements the recommender issues.          *)
(***************************************************************************)
\* rows of movies JOIN movie_ratings (every movie of the fixtures is rated)
Joined == MovieIds

\* table order of the ids in S (a scan without ORDER BY, in row order)
RECURSIVE InTableOrder(_, _)
InTableOrder(S, m) ==
    IF m > NumMovies THEN <<>>
    ELSE (IF m \in S THEN <<m>> ELSE <<>>) \o InTableOrder(S, m + 1)

\* variant: the join yields every qualifying movie twice (two ratings rows)
snapshot_query_DuplicateRows ==
    InTableOrder({m \in Joined : movie_ratings[m].num_votes > SnapshotVotes}, 1)
        \o InTableOrder({m \in Joined : movie_ratings[m].num_votes > SnapshotVotes}, 1)

\* SELECT m.id, ... WHERE mr.num_votes > 1000
snapshot_query ==
    InTableOrder({m \in Joined : movie_ratings[m].num_votes > SnapshotVotes}, 1)

\* SELECT DISTINCT m.id FROM viewing_history ... WHERE vh.user_id = %s
\*   AND mr.num_votes > 1000
user_movies_query(user_id) ==
    {m \in Joined : /\ <<user_id, m>> \in viewing_history
                    /\ movie_ratings[m].num_votes > SnapshotVotes}

\* ORDER BY mr.avg_rating DESC names no second key: rows of equal
\* avg_rating come back in any order, chosen anew by every execution
OrderByAvgRatingDesc(S) ==
    {s \in SeqsOf(S) :
        \A i, j \in DOMAIN s :
            i < j => movie_ratings[s[i]].avg_rating >= movie_ratings[s[j]].avg_rating}

\* SELECT ... WHERE m.id IN (ids) ORDER BY mr.avg_rating DESC
metadata_query(ids) ==
    OrderByAvgRatingDesc({m \in Joined : m \in Range(ids)})

\* variant: the statement carries no LIMIT clause
SqlLimitIgnored(s, n) == s

\* LIMIT n
SqlLimit(s, n) == SubSeq(s, 1, Min(n, Len(s)))

\* variant: the fallback query filters by the snapshot threshold
popular_query_SnapshotThreshold(limit) ==
    {SqlLimit(s, limit) :
        s \in OrderByAvgRatingDesc(
                {m \in Joined : movie_ratings[m].num_votes > SnapshotVotes})}

\* SELECT ... WHERE mr.num_votes > 10000 ORDER BY mr.avg_rating DESC LIMIT %s
popular_query(limit) ==
    {SqlLimit(s, limit) :
        s \in OrderByAvgRatingDesc(
                {m \in Joined : movie_ratings[m].num_votes > PopularVotes})}

(***************************************************************************)
(* ContentBasedRecommender                                                 *)
(***************************************************************************)
\* __init__: snapshot, the two indices and the TF-IDF matrix
BuildRecommender ==
    LET movie_ids == snapshot_query
        texts == [i \in DOMAIN movie_ids |-> movie_text(movies[movie_ids[i]])]
    IN  [movie_ids         |-> movie_ids,
         movie_texts       |-> texts,
         movie_id_to_index |-> [m \in Range(movie_ids) |->
                                   CHOOSE i \in DOMAIN movie_ids : movie_ids[i] = m],
         index_to_movie_id |-> [i \in DOMAIN movie_ids |-> movie_ids[i]],
         tfidf_matrix      |-> fit_transform(texts)]

\* variant: the vectorizer accepts a corpus without any term
EmptyVocabularyAccepted == FALSE

\* fit_transform raises ValueError on an empty vocabulary
EmptyVocabulary ==
    LET movie_ids == snapshot_query
    IN  Vocabulary([i \in DOMAIN movie_ids |-> movie_text(movies[movie_ids[i]])]) = {}

\* variant: the loop stops one entry late (> instead of >=)
RECURSIVE CollectOffByOne(_, _, _, _, _, _)
CollectOffByOne(similar_indices, index_to_movie_id, excluded, limit, k, recommendations) ==
    IF k > Len(similar_indices) THEN recommendations
    ELSE LET movie_id == index_to_movie_id[similar_indices[k]]
             appended == IF movie_id \notin excluded
                         THEN Append(recommendations, movie_id)
                         ELSE recommendations
         IN  IF Len(appended) > limit THEN appended
             ELSE CollectOffByOne(similar_indices, index_to_movie_id, excluded,
                                  limit, k + 1, appended)

\* the loop over similar_indices: append what is not excluded, stop at limit
RECURSIVE Collect(_, _, _, _, _, _)
Collect(similar_indices, index_to_movie_id, excluded, limit, k, recommendations) ==
    IF k > Len(similar_indices) THEN recommendations
    ELSE LET movie_id == index_to_movie_id[similar_indices[k]]
             appended == IF movie_id \notin excluded
                         THEN Append(recommendations, movie_id)
                         ELSE recommendations
         IN  IF Len(appended) >= limit THEN appended
             ELSE Collect(similar_indices, index_to_movie_id, excluded, limit,
                          k + 1, appended)

\* get_popular_movies: the possible results, one per execution of the query
get_popular_movies(limit) ==
    {[path |-> "popular", raised |-> "none", queries |-> <<"popular">>,
      failed |-> 0, order |-> <<>>, ranked |-> <<>>, out |-> rows] :
        rows \in popular_query(limit)}

\* variant: the fallback call drops the limit argument
FallbackDefaultLimit(path, limit) ==
    {[r EXCEPT !.path = path, !.queries = <<"history">> \o r.queries] :
        r \in get_popular_movies(DefaultLimit)}

\* return self.get_popular_movies(db_cursor, limit)
Fallback(path, limit) ==
    {[r EXCEPT !.path = path, !.queries = <<"history">> \o r.queries] :
        r \in get_popular_movies(limit)}

\* variant: the profile is the vector of one watched movie, not the mean
ProfileScoresFirstOnly(self, user_movie_indices) ==
    cosine_similarity(
        self.tfidf_matrix[CHOOSE i \in user_movie_indices :
                              \A j \in user_movie_indices : i <= j],
        self.tfidf_matrix)

\* scores of every snapshot position against the mean vector of the user
ProfileScores(self, user_movie_indices) ==
    cosine_similarity(Mean(self.tfidf_matrix, user_movie_indices), self.tfidf_matrix)

\* variant: an empty selection is returned as it is, without the fallback
get_content_based_recommendations_EmptyWhenAllSeen(self, user_id, limit) ==
    LET user_movies == user_movies_query(user_id)
        user_movie_indices ==
            {self.movie_id_to_index[m] : m \in user_movies \cap DOMAIN self.movie_id_to_index}
    IN  IF user_movies = {} THEN Fallback("no_history", limit)
        ELSE IF user_movie_indices = {} THEN Fallback("no_valid_movies", limit)
        ELSE LET similar_indices ==
                     argsort_desc(ProfileScores(self, user_movie_indices), argsort_ties)
                 recommendations ==
                     Collect(similar_indices, self.index_to_movie_id, user_movies,
                             limit, 1, <<>>)
             IN  IF recommendations = <<>>
                 THEN {[path |-> "all_seen", raised |-> "none",
                        queries |-> <<"history">>, failed |-> 0,
                        order |-> similar_indices, ranked |-> <<>>, out |-> <<>>]}
                 ELSE {[path |-> "personalized", raised |-> "none",
                        queries |-> <<"history", "metadata">>, failed |-> 0,
                        order |-> similar_indices,
                        ranked |-> recommendations, out |-> rows] :
                           rows \in metadata_query(recommendations)}

\* get_content_based_recommendations
get_content_based_recommendations(self, user_id, limit) ==
    LET user_movies == user_movies_query(user_id)
        user_movie_indices ==
            {self.movie_id_to_index[m] : m \in user_movies \cap DOMAIN self.movie_id_to_index}
    IN  IF user_movies = {} THEN Fallback("no_history", limit)
        ELSE IF user_movie_indices = {} THEN Fallback("no_valid_movies", limit)
        ELSE LET similar_indices ==
                     argsort_desc(ProfileScores(self, user_movie_indices), argsort_ties)
                 recommendations ==
                     Collect(similar_indices, self.index_to_movie_id, user_movies,
                             limit, 1, <<>>)
             IN  IF recommendations = <<>> THEN Fallback("all_seen", limit)
                 ELSE {[path |-> "personalized", raised |-> "none",
                        queries |-> <<"history", "metadata">>, failed |-> 0,
                        order |-> similar_indices,
                        ranked |-> recommendations, out |-> rows] :
                           rows \in metadata_query(recommendations)}

\* scores of every snapshot position against the vector of one movie
MovieScores(self, movie_id) ==
    cosine_similarity(self.tfidf_matrix[self.movie_id_to_index[movie_id]],
                      self.tfidf_matrix)

\* get_similar_movies for a movie of the index: rank, select, join metadata
SimilarInIndex(self, movie_id, limit) ==
    LET similar_indices ==
            argsort_desc(MovieScores(self, movie_id), argsort_ties)
        recommendations ==
            Collect(similar_indices, self.index_to_movie_id, {movie_id},
                    limit, 1, <<>>)
    IN  IF recommendations = <<>>
        THEN {[path |-> "empty", raised |-> "none", queries |-> <<>>,
               failed |-> 0, order |-> similar_indices,
               ranked |-> <<>>, out |-> <<>>]}
        ELSE {[path |-> "similar", raised |-> "none",
               queries |-> <<"metadata">>, failed |-> 0,
               order |-> similar_indices,
               ranked |-> recommendations, out |-> rows] :
                  rows \in metadata_query(recommendations)}

\* variant: no membership test, the index lookup raises KeyError
get_similar_movies_NoIndexCheck(self, movie_id, limit) ==
    IF movie_id \notin DOMAIN self.movie_id_to_index
    THEN {[path |-> "not_in_index", raised |-> "KeyError", queries |-> <<>>,
           failed |-> 0, order |-> <<>>, ranked |-> <<>>, out |-> <<>>]}
    ELSE SimilarInIndex(self, movie_id, limit)

\* get_similar_movies
get_similar_movies(self, movie_id, limit) ==
    IF movie_id \notin DOMAIN self.movie_id_to_index
    THEN {[path |-> "not_in_index", raised |-> "none", queries |-> <<>>,
           failed |-> 0, order |-> <<>>, ranked |-> <<>>, out |-> <<>>]}
    ELSE SimilarInIndex(self, movie_id, limit)

(***************************************************************************)
(* State outside the service, before any script or handler has run.        *)
(***************************************************************************)
\* an Optional[int]: no element for None, one element for an int
NoInt == <<>>
SomeInt(n) == <<n>>

NoFiles ==
    [name_basics |-> <<>>, title_basics |-> <<>>,
     title_ratings |-> <<>>, title_crew |-> <<>>]

EmptyTables ==
    [persons |-> {}, movies |-> {}, movie_ratings |-> {}, movie_crew |-> {}]

\* process_all_files has not been called
NotStarted ==
    [run |-> 0, file |-> 0, phase |-> "idle", fetched |-> {},
     first_run |-> EmptyTables]

NoRequest == [handler |-> "none"]

ScriptsIdle ==
    /\ BATCH_SIZE = 1
    /\ csv_files = NoFiles
    /\ tables = EmptyTables
    /\ task = NotStarted
    /\ existing_ids = {}
    /\ existing_person_ids = {}
    /\ batches = <<>>
    /\ reading = None
    /\ gen = None

(***************************************************************************)
(* State machine                                                           *)
(***************************************************************************)
\* res: the request being answered and its result.  queries lists the
\* statements the call executed, failed is the place in queries of the one
\* that failed (0: none), order is similar_indices, ranked the list
\* recommendations as selected from the score ranking, out the ids of the
\* rows returned, raised the exception that ended the call ("none": it
\* returned).
NoResponse ==
    [op |-> "none", arg |-> NULL, limit |-> 0, path |-> "none",
     raised |-> "none", queries |-> <<>>, failed |-> 0, order |-> <<>>,
     ranked |-> <<>>, out |-> <<>>]

Response(op, arg, limit, r) ==
    [op |-> op, arg |-> arg, limit |-> limit, path |-> r.path,
     raised |-> r.raised, queries |-> r.queries, failed |-> r.failed,
     order |-> r.order, ranked |-> r.ranked, out |-> r.out]

\* a client issues a request when no response is pending, or repeats the
\* request whose response it holds
MayRequest(op, arg, limit) ==
    \/ res = NoResponse
    \/ res.op = op /\ res.arg = arg /\ res.limit = limit

Init ==
    /\ \E c \in DOMAIN CatalogPatterns :
          movies = [m \in MovieIds |-> Cycle(CatalogPatterns[c], m)]
    /\ \E v \in DOMAIN VotePatterns, r \in DOMAIN RatingPatterns :
          movie_ratings = [m \in MovieIds |->
              [num_votes  |-> Cycle(VotePatterns[v], m),
               avg_rating |-> Cycle(RatingPatterns[r], m)]]
    /\ viewing_history = {}
    /\ startup = "pending"
    /\ recommender = None
    /\ argsort_ties = <<>>
    /\ res = NoResponse
    /\ ScriptsIdle
    /\ http = NoRequest

\* startup_event: build the recommender once; an exception aborts startup
Startup ==
    /\ startup = "pending"
    /\ IF EmptyVocabulary
       THEN /\ startup' = "failed"
            /\ UNCHANGED <<recommender, argsort_ties>>
       ELSE /\ startup' = "done"
            /\ recommender' = BuildRecommender
            /\ argsort_ties' \in Permutations(DOMAIN snapshot_query)
    /\ UNCHANGED <<storage, res, scripts, http>>

\* POST /users/{user_id}/viewing_history with a known user and a known movie
AddViewingHistory ==
    /\ res = NoResponse
    /\ \E u \in Users, m \in MovieIds :
          /\ <<u, m>> \notin viewing_history
          /\ viewing_history' = viewing_history \cup {<<u, m>>}
    /\ UNCHANGED <<movies, movie_ratings, startup, recommender, argsort_ties, res,
                 scripts, http>>

\* variant: the handler fits a new recommender on every call
GetSimilarMoviesRefit ==
    /\ startup = "done"
    /\ \E movie_id \in RequestIds, limit \in Limits :
          /\ MayRequest("similar", movie_id, limit)
          /\ \E r \in get_similar_movies(BuildRecommender, movie_id, limit) :
                res' = Response("similar", movie_id, limit, r)
    /\ recommender' = BuildRecommender
    /\ UNCHANGED <<storage, startup, argsort_ties, scripts, http>>

GetSimilarMovies ==
    /\ startup = "done"
    /\ \E movie_id \in RequestIds, limit \in Limits :
          /\ MayRequest("similar", movie_id, limit)
          /\ \E r \in get_similar_movies(recommender, movie_id, limit) :
                res' = Response("similar", movie_id, limit, r)
    /\ UNCHANGED <<storage, startup, recommender, argsort_ties, scripts, http>>

GetContentBasedRecommendations ==
    /\ startup = "done"
    /\ \E user_id \in Users, limit \in Limits :
          /\ MayRequest("recommend", user_id, limit)
          /\ \E r \in get_content_based_recommendations(recommender, user_id, limit) :
                res' = Response("recommend", user_id, limit, r)
    /\ UNCHANGED <<storage, startup, recommender, argsort_ties, scripts, http>>

GetPopularMovies ==
    /\ startup = "done"
    /\ \E limit \in Limits :
          /\ MayRequest("popular", NULL, limit)
          /\ \E r \in get_popular_movies(limit) :
                res' = Response("popular", NULL, limit, r)
    /\ UNCHANGED <<storage, startup, recommender, argsort_ties, scripts, http>>

\* the response is handed to the caller
Deliver ==
    /\ res # NoResponse
    /\ res' = NoResponse
    /\ UNCHANGED <<storage, startup, recommender, argsort_ties, scripts, http>>

Next ==
    \/ Startup
    \/ AddViewingHistory
    \/ GetSimilarMovies
    \/ GetContentBasedRecommendations
    \/ GetPopularMovies
    \/ Deliver

Spec == Init /\ [][Next]_vars

TypeOK ==
    /\ startup \in {"pending", "done", "failed"}
    /\ res.op \in {"none", "similar", "recommend", "popular"}
    /\ Range(res.out) \subseteq MovieIds

(***************************************************************************)
(* Storage failures: a statement of a call raises psycopg2.Error.          *)
(***************************************************************************)
\* variant: the failed statement is executed again and the call goes on
QueryFailuresRetried(results) ==
    UNION {{[r EXCEPT !.queries = SubSeq(r.queries, 1, k)
                                     \o SubSeq(r.queries, k, Len(r.queries)),
                      !.failed = k] : k \in 1..Len(r.queries)} : r \in results}

\* db_cursor.execute raises at statement k of the call: none of the three
\* methods has a try block, so the call ends there with the exception
QueryFailures(results) ==
    UNION {{[path |-> "query_failed", raised |-> "psycopg2.Error",
             queries |-> SubSeq(r.queries, 1, k), failed |-> k,
             order |-> <<>>, ranked |-> <<>>, out |-> <<>>] :
                k \in 1..Len(r.queries)} : r \in results}

\* the status a request is answered with: an exception of the recommender
\* or of the get_recommender dependency becomes 500, an empty list 404
HttpStatus(r) ==
    IF r.raised # "none" THEN 500
    ELSE IF r.out = <<>> THEN 404
    ELSE 200

GetSimilarMoviesQueryFails ==
    /\ startup = "done"
    /\ \E movie_id \in RequestIds, limit \in Limits :
          /\ MayRequest("similar", movie_id, limit)
          /\ \E r \in QueryFailures(get_similar_movies(recommender, movie_id, limit)) :
                res' = Response("similar", movie_id, limit, r)
    /\ UNCHANGED <<storage, startup, recommender, argsort_ties, scripts, http>>

GetContentBasedRecommendationsQueryFails ==
    /\ startup = "done"
    /\ \E user_id \in Users, limit \in Limits :
          /\ MayRequest("recommend", user_id, limit)
          /\ \E r \in QueryFailures(
                       get_content_based_recommendations(recommender, user_id, limit)) :
                res' = Response("recommend", user_id, limit, r)
    /\ UNCHANGED <<storage, startup, recommender, argsort_ties, scripts, http>>

GetPopularMoviesQueryFails ==
    /\ startup = "done"
    /\ \E limit \in Limits :
          /\ MayRequest("popular", NULL, limit)
          /\ \E r \in QueryFailures(get_popular_movies(limit)) :
                res' = Response("popular", NULL, limit, r)
    /\ UNCHANGED <<storage, startup, recommender, argsort_ties, scripts, http>>

\* the requests of this specification all meet a failing statement
NextFault ==
    \/ Startup
    \/ AddViewingHistory
    \/ GetSimilarMoviesQueryFails
    \/ GetContentBasedRecommendationsQueryFails
    \/ GetPopularMoviesQueryFails
    \/ Deliver

SpecFault == Init /\ [][NextFault]_vars

(***************************************************************************)
(* Storage changes after startup: the import script is run again.          *)
(***************************************************************************)
\* process_title_ratings: every row of the ratings file is upserted into
\* movie_ratings; the file carries new vote counts
ImportRatings ==
    /\ res = NoResponse
    /\ \E v \in DOMAIN VotePatterns :
          /\ movie_ratings' = [m \in MovieIds |->
                [movie_ratings[m] EXCEPT !.num_votes = Cycle(VotePatterns[v], m)]]
          /\ movie_ratings' # movie_ratings
    /\ UNCHANGED <<movies, viewing_history, startup, recommender, argsort_ties, res,
                 scripts, http>>

\* the storage of Init, with a user who has watched nothing or one movie
InitDrift ==
    /\ \E c \in DOMAIN CatalogPatterns :
          movies = [m \in MovieIds |-> Cycle(CatalogPatterns[c], m)]
    /\ \E v \in DOMAIN VotePatterns, r \in DOMAIN RatingPatterns :
          movie_ratings = [m \in MovieIds |->
              [num_votes  |-> Cycle(VotePatterns[v], m),
               avg_rating |-> Cycle(RatingPatterns[r], m)]]
    /\ \E watched \in {{}, {CHOOSE m \in MovieIds : \A n \in MovieIds : m <= n}} :
          viewing_history = Users \X watched
    /\ startup = "pending"
    /\ recommender = None
    /\ argsort_ties = <<>>
    /\ res = NoResponse
    /\ ScriptsIdle
    /\ http = NoRequest

NextDrift ==
    \/ Startup
    \/ ImportRatings
    \/ GetSimilarMovies
    \/ GetContentBasedRecommendations
    \/ GetPopularMovies
    \/ Deliver

SpecDrift == InitDrift /\ [][NextDrift]_vars

(***************************************************************************)
(* Requests that arrive while no recommender is installed.                 *)
(***************************************************************************)
\* get_recommender: app.state.recommender was never assigned, reading it
\* raises before the handler body runs
RecommenderMissing ==
    [path |-> "not_initialized", raised |-> "AttributeError", queries |-> <<>>,
     failed |-> 0, order |-> <<>>, ranked |-> <<>>, out |-> <<>>]

\* variant: without a recommender the recommend handler serves the
\* popularity list
RequestNotInitializedServesPopular ==
    /\ startup # "done"
    /\ \E user_id \in Users, limit \in Limits :
          /\ MayRequest("recommend", user_id, limit)
          /\ \E r \in get_popular_movies(limit) :
                res' = Response("recommend", user_id, limit, r)
    /\ UNCHANGED <<storage, startup, recommender, argsort_ties, scripts, http>>

\* a similar or recommend request served before startup_event has
\* completed, or after it failed
RequestNotInitialized ==
    /\ startup # "done"
    /\ \/ \E movie_id \in RequestIds, limit \in Limits :
             /\ MayRequest("similar", movie_id, limit)
             /\ res' = Response("similar", movie_id, limit, RecommenderMissing)
       \/ \E user_id \in Users, limit \in Limits :
             /\ MayRequest("recommend", user_id, limit)
             /\ res' = Response("recommend", user_id, limit, RecommenderMissing)
    /\ UNCHANGED <<storage, startup, recommender, argsort_ties, scripts, http>>

NextBoot ==
    \/ Startup
    \/ RequestNotInitialized
    \/ GetSimilarMovies
    \/ GetContentBasedRecommendations
    \/ GetPopularMovies
    \/ Deliver

SpecBoot == InitDrift /\ [][NextBoot]_vars

(***************************************************************************)
(* scripts/process_imdb_data.py: reading a CSV file in batches.            *)
(***************************************************************************)
\* the service is not running while a script runs
ServiceOff ==
    /\ movies = [m \in MovieIds |-> Cycle(CatalogPatterns[1], m)]
    /\ movie_ratings = [m \in MovieIds |->
          [num_votes  |-> Cycle(VotePatterns[1], m),
           avg_rating |-> Cycle(RatingPatterns[1], m)]]
    /\ viewing_history = {}
    /\ startup = "pending"
    /\ recommender = None
    /\ argsort_ties = <<>>
    /\ res = NoResponse

\* the truth value Python gives an Optional[int]: None and 0 are false
Truthy(n) == n # NoInt /\ n[1] # 0

\* the for loop of read_csv_in_batches from row i on: batch and count are
\* its locals, yielded the batches handed out so far
RECURSIVE ReadRows(_, _, _, _, _, _)
ReadRows(rows, i, batch, count, yielded, max_entries) ==
    IF i > Len(rows) THEN [batch |-> batch, count |-> count, yielded |-> yielded]
    ELSE IF rows[i] = <<>>
         THEN ReadRows(rows, i + 1, batch, count, yielded, max_entries)
    ELSE LET appended == Append(batch, rows[i])
             counted  == count + 1
             full     == Len(appended) = BATCH_SIZE
             out      == IF full THEN Append(yielded, appended) ELSE yielded
             rest     == IF full THEN <<>> ELSE appended
         IN  IF Truthy(max_entries) /\ counted >= max_entries[1]
             THEN [batch |-> rest, count |-> counted, yielded |-> out]
             ELSE ReadRows(rows, i + 1, rest, counted, out, max_entries)

\* read_csv_in_batches: the sequence of batches the generator yields; a
\* file is the sequence of rows csv.reader gives, <<>> for a blank line
read_csv_in_batches(file, has_header, max_entries) ==
    LET rows == IF has_header /\ file # <<>> THEN Tail(file) ELSE file
        end  == ReadRows(rows, 1, <<>>, 0, <<>>, max_entries)
    IN  IF end.batch # <<>> /\ (~Truthy(max_entries) \/ end.count <= max_entries[1])
        THEN Append(end.yielded, end.batch)
        ELSE end.yielded

\* a file of up to MaxLines lines, some of them blank; a row carries the
\* number of its line
InitCsv ==
    /\ ServiceOff
    /\ BATCH_SIZE \in 1..MaxBatchSize
    /\ csv_files = NoFiles
    /\ tables = EmptyTables
    /\ task = NotStarted
    /\ existing_ids = {}
    /\ existing_person_ids = {}
    /\ batches = <<>>
    /\ \E n \in 0..MaxLines, blank \in SUBSET (1..MaxLines), has_header \in BOOLEAN,
          max_entries \in {NoInt} \cup {SomeInt(k) : k \in 0..MaxEntries} :
          /\ blank \subseteq 1..n
          /\ reading = [file |-> [i \in 1..n |-> IF i \in blank THEN <<>> ELSE <<i>>],
                        has_header |-> has_header, max_entries |-> max_entries,
                        done |-> FALSE, yielded |-> <<>>]
    /\ gen = None
    /\ http = NoRequest

\* the caller runs the generator to its end
ReadCsvInBatches ==
    /\ ~reading.done
    /\ reading' = [reading EXCEPT
          !.done = TRUE,
          !.yielded = read_csv_in_batches(reading.file, reading.has_header,
                                          reading.max_entries)]
    /\ UNCHANGED <<service, BATCH_SIZE, importer, gen, http>>

NextCsv == ReadCsvInBatches

SpecCsv == InitCsv /\ [][NextCsv]_vars

(***************************************************************************)
(* scripts/process_imdb_data.py: process_all_files.  A CSV row is the      *)
(* tuple of its columns; a table is the set of its rows, keyed by the      *)
(* first column (movie_crew by the whole row).                             *)
(***************************************************************************)
tasks_RatingsFirst ==
    <<"title_ratings", "name_basics", "title_basics", "title_crew">>

\* the files in the order of the list tasks
tasks == <<"name_basics", "title_basics", "title_ratings", "title_crew">>

WithHeader(rows) == << <<"header">> >> \o rows

\* files with an id repeated across rows, a rating and a crew row for a
\* movie no file holds, and a writer no file holds; and files without any
\* of these
Datasets ==
    << [name_basics   |-> WithHeader(<< <<"nm1">>, <<"nm2">>, <<"nm1">> >>),
        title_basics  |-> WithHeader(<< <<"tt1", "a">>, <<"tt2", "a">>, <<"tt1", "b">> >>),
        title_ratings |-> WithHeader(<< <<"tt1", 1>>, <<"tt9", 1>>, <<"tt1", 2>> >>),
        title_crew    |-> WithHeader(<< <<"tt1", <<"nm1">>, <<"nm9">> >>,
                                        <<"tt9", <<"nm1">>, <<>> >> >>)],
       [name_basics   |-> WithHeader(<< <<"nm1">>, <<"nm2">> >>),
        title_basics  |-> WithHeader(<< <<"tt1", "a">>, <<"tt2", "a">> >>),
        title_ratings |-> WithHeader(<< <<"tt1", 1>>, <<"tt2", 2>> >>),
        title_crew    |-> WithHeader(<< <<"tt1", <<"nm1">>, <<"nm2">> >> >>)] >>

\* the database before the first run: empty, or holding a person and a
\* movie of an earlier import
InitialTables ==
    {EmptyTables,
     [EmptyTables EXCEPT !.persons = {<<"nm1">>}, !.movies = {<<"tt2", "a">>}]}

Ids(table) == {row[1] : row \in table}

\* the table get_existing_ids is called on for each file
IdTable(file) ==
    IF file = "name_basics" THEN tables.persons ELSE tables.movies

\* a batch handed to executor.submit, and the locals of its worker
Worker(batch) ==
    [rows |-> batch, next |-> 1, data_batch |-> <<>>, skipped |-> 0,
     inserted |-> 0, pc |-> "rows"]

InitImport ==
    /\ ServiceOff
    /\ BATCH_SIZE \in 1..MaxBatchSize
    /\ \E d \in DOMAIN Datasets : csv_files = Datasets[d]
    /\ tables \in InitialTables
    /\ task = [NotStarted EXCEPT !.run = 1, !.file = 1]
    /\ existing_ids = {}
    /\ existing_person_ids = {}
    /\ batches = <<>>
    /\ reading = None
    /\ gen = None
    /\ http = NoRequest

\* process_name_basics, process_title_basics, process_title_ratings,
\* process_title_crew up to the submission of the batches
StartFile ==
    /\ task.run >= 1
    /\ task.phase = "idle"
    /\ LET file == tasks[task.file]
           fetched == Ids(IdTable(file))
           read == read_csv_in_batches(csv_files[file], TRUE,
                                       SomeInt(MAX_ENTRIES_PER_FILE))
       IN  /\ existing_ids' = fetched
           /\ existing_person_ids' =
                 IF file = "title_crew" THEN Ids(tables.persons) ELSE {}
           /\ batches' = [b \in DOMAIN read |-> Worker(read[b])]
           /\ task' = [task EXCEPT !.phase = "running", !.fetched = fetched]
    /\ UNCHANGED <<service, BATCH_SIZE, csv_files, tables, reading, gen, http>>

\* the number of leading columns in the ON CONFLICT target of each query
conflict_target ==
    [name_basics |-> 1, title_basics |-> 1, title_ratings |-> 1, title_crew |-> 3]

\* the table each query inserts into
TableOf ==
    [name_basics |-> "persons", title_basics |-> "movies",
     title_ratings |-> "movie_ratings", title_crew |-> "movie_crew"]

Key(row, n) == SubSeq(row, 1, n)

\* INSERT ... ON CONFLICT (key) DO NOTHING: a row whose key is in the table,
\* or earlier in the same statement, is left out
RECURSIVE OnConflictDoNothing(_, _, _)
OnConflictDoNothing(table, rows, n) ==
    IF rows = <<>> THEN table
    ELSE LET row == Head(rows)
             present == \E old \in table : Key(old, n) = Key(row, n)
         IN  OnConflictDoNothing(IF present THEN table ELSE table \cup {row},
                                 Tail(rows), n)

\* INSERT ... ON CONFLICT (key) DO UPDATE cannot affect one row twice in a
\* statement
AffectsRowTwice(rows, n) ==
    \E i, j \in DOMAIN rows : i # j /\ Key(rows[i], n) = Key(rows[j], n)

\* INSERT ... ON CONFLICT (key) DO UPDATE SET ... = EXCLUDED. ...
OnConflictDoUpdate(table, rows, n) ==
    {old \in table : \A i \in DOMAIN rows : Key(rows[i], n) # Key(old, n)}
        \cup {rows[i] : i \in DOMAIN rows}

AlreadyExistsAtStart(id) == id \in task.fetched

\* the membership test of process_batch_title_basics and
\* process_batch_name_basics, made while holding existing_ids_lock
AlreadyExists(id) == id \in existing_ids

\* the tuples one title.crew row appends to crew_entries
CrewEntries(row) ==
    LET role(ids, name) ==
            SelectSeq([i \in DOMAIN ids |-> <<row[1], ids[i], name>>],
                      LAMBDA e : e[2] \in existing_person_ids)
    IN  role(row[2], "director") \o role(row[3], "writer")

CrewSkipped(row) ==
    Cardinality({i \in DOMAIN row[2] : row[2][i] \notin existing_person_ids})
        + Cardinality({i \in DOMAIN row[3] : row[3][i] \notin existing_person_ids})

\* one pass of the loop "for row in batch" of worker b
ProcessRow(b) ==
    /\ task.phase = "running"
    /\ batches[b].pc = "rows"
    /\ LET w == batches[b]
           file == tasks[task.file]
           row == w.rows[w.next]
           claims == file \in {"name_basics", "title_basics"}
           new == IF claims
                    THEN IF AlreadyExists(row[1]) THEN <<>> ELSE <<row>>
                  ELSE IF row[1] \notin existing_ids THEN <<>>
                  ELSE IF file = "title_ratings" THEN <<row>>
                  ELSE CrewEntries(row)
           skips == IF claims THEN IF AlreadyExists(row[1]) THEN 1 ELSE 0
                    ELSE IF row[1] \notin existing_ids THEN 1
                    ELSE IF file = "title_ratings" THEN 0
                    ELSE CrewSkipped(row)
           data == w.data_batch \o new
           last == w.next = Len(w.rows)
       IN  /\ batches' = [batches EXCEPT ![b] =
                 [w EXCEPT !.next = w.next + 1,
                           !.data_batch = data,
                           !.skipped = w.skipped + skips,
                           !.pc = IF ~last THEN "rows"
                                  ELSE IF data # <<>> THEN "insert" ELSE "done"]]
           /\ existing_ids' =
                 IF claims /\ new # <<>> THEN existing_ids \cup {row[1]}
                 ELSE existing_ids
    /\ UNCHANGED <<service, BATCH_SIZE, csv_files, tables, task,
                   existing_person_ids, reading, gen, http>>

ProcessBatchRow == \E b \in DOMAIN batches : ProcessRow(b)

\* insert_into_db and conn.commit() of worker b, or the exception of the
\* statement and conn.rollback()
InsertBatch(b) ==
    /\ task.phase = "running"
    /\ batches[b].pc = "insert"
    /\ LET w == batches[b]
           file == tasks[task.file]
           n == conflict_target[file]
           old == tables[TableOf[file]]
           raises == file = "title_ratings" /\ AffectsRowTwice(w.data_batch, n)
           new == IF raises THEN old
                  ELSE IF file = "title_ratings"
                         THEN OnConflictDoUpdate(old, w.data_batch, n)
                  ELSE OnConflictDoNothing(old, w.data_batch, n)
           returned == IF raises THEN 0
                       ELSE IF file = "title_ratings" THEN Len(w.data_batch)
                       ELSE Cardinality(new \ old)
       IN  /\ tables' = [tables EXCEPT ![TableOf[file]] = new]
           /\ batches' = [batches EXCEPT ![b] =
                 [w EXCEPT !.inserted = returned, !.pc = "done"]]
    /\ UNCHANGED <<service, BATCH_SIZE, csv_files, task, existing_ids,
                   existing_person_ids, reading, gen, http>>

InsertIntoDb == \E b \in DOMAIN batches : InsertBatch(b)

\* the statement of worker b raises psycopg2.Error: conn.rollback()
InsertFails(b) ==
    /\ task.phase = "running"
    /\ batches[b].pc = "insert"
    /\ batches' = [batches EXCEPT ![b].pc = "done"]
    /\ UNCHANGED <<service, BATCH_SIZE, csv_files, tables, task, existing_ids,
                   existing_person_ids, reading, gen, http>>

InsertRaises == \E b \in DOMAIN batches : InsertFails(b)

AllBatchesDone == \A b \in DOMAIN batches : batches[b].pc = "done"

\* the with ThreadPoolExecutor block is left, the loop over tasks goes on
FinishFile ==
    /\ task.phase = "running"
    /\ AllBatchesDone
    /\ task' = IF task.file < Len(tasks)
                THEN [task EXCEPT !.file = task.file + 1, !.phase = "idle"]
                ELSE [task EXCEPT !.phase = "complete"]
    /\ UNCHANGED <<service, BATCH_SIZE, csv_files, tables, existing_ids,
                   existing_person_ids, batches, reading, gen, http>>

\* python3 scripts/process_imdb_data.py once more, on the same files
RunAgain ==
    /\ task.phase = "complete"
    /\ task.run < MaxRuns
    /\ task' = [run |-> task.run + 1, file |-> 1, phase |-> "idle",
                fetched |-> {}, first_run |-> tables]
    /\ existing_ids' = {}
    /\ existing_person_ids' = {}
    /\ batches' = <<>>
    /\ UNCHANGED <<service, BATCH_SIZE, csv_files, tables, reading, gen, http>>

NextImport ==
    \/ StartFile
    \/ ProcessBatchRow
    \/ InsertIntoDb
    \/ FinishFile
    \/ RunAgain

SpecImport == InitImport /\ [][NextImport]_vars

NextImportFail ==
    \/ StartFile
    \/ ProcessBatchRow
    \/ InsertIntoDb
    \/ InsertRaises
    \/ FinishFile
    \/ RunAgain

SpecImportFail == InitImport /\ [][NextImportFail]_vars

(***************************************************************************)
(* api/users.py, api/movies.py, api/recommendations.py: the request        *)
(* handlers with their database connection.  http holds the request in     *)
(* progress once its handler has returned or raised: the status it is      *)
(* answered with and what became of the connection and the cursor.         *)
(***************************************************************************)
\* a user id no row of users holds
UnknownUser == "u0"
RequestUsers == Users \cup {UnknownUser}

\* where a request can meet a database error
Faults == {"none", "connect", "query", "movie_query", "insert"}

Outcome(status, conn, committed) ==
    [status |-> status, conn |-> conn, cursor |-> conn, committed |-> committed]

\* variant: the row is inserted without looking the movie up
add_viewing_history_NoMovieLookup(user_id, movie_id, fault) ==
    IF fault = "connect" THEN Outcome(500, "none", FALSE)
    ELSE IF fault = "query" THEN Outcome(500, "open", FALSE)
    ELSE IF user_id \notin Users THEN Outcome(404, "open", FALSE)
    ELSE IF fault = "insert" THEN Outcome(500, "closed", FALSE)
    ELSE Outcome(201, "closed", TRUE)

\* add_viewing_history: the two lookups raise out of the function, only
\* the try block of the insert has a finally that closes
add_viewing_history(user_id, movie_id, fault) ==
    IF fault = "connect" THEN Outcome(500, "none", FALSE)
    ELSE IF fault = "query" THEN Outcome(500, "open", FALSE)
    ELSE IF user_id \notin Users THEN Outcome(404, "open", FALSE)
    ELSE IF fault = "movie_query" THEN Outcome(500, "open", FALSE)
    ELSE IF movie_id \notin MovieIds THEN Outcome(404, "open", FALSE)
    ELSE IF fault = "insert" THEN Outcome(500, "closed", FALSE)
    ELSE Outcome(201, "closed", TRUE)

\* the handlers that run one query inside try / except / finally and test
\* the result after the finally
query_handler(found, fault) ==
    IF fault = "connect" THEN Outcome(500, "none", FALSE)
    ELSE IF fault = "query" THEN Outcome(500, "closed", FALSE)
    ELSE IF ~found THEN Outcome(404, "closed", FALSE)
    ELSE Outcome(200, "closed", FALSE)

Request(handler, user_id, movie_id, fault, o) ==
    [handler |-> handler, user_id |-> user_id, movie_id |-> movie_id,
     fault |-> fault, status |-> o.status, conn |-> o.conn,
     cursor |-> o.cursor, committed |-> o.committed]

InitApi ==
    /\ ServiceOff
    /\ ScriptsIdle
    /\ http = NoRequest

\* POST /users/{user_id}/viewing_history
HandleAddViewingHistory ==
    /\ http = NoRequest
    /\ \E user_id \in RequestUsers, movie_id \in RequestIds, fault \in Faults :
          LET o == add_viewing_history(user_id, movie_id, fault)
          IN  /\ http' = Request("add_viewing_history", user_id, movie_id, fault, o)
              /\ viewing_history' =
                    IF o.committed
                    THEN viewing_history \cup {<<user_id, movie_id>>}
                    ELSE viewing_history
    /\ UNCHANGED <<movies, movie_ratings, startup, recommender, argsort_ties,
                   res, scripts>>

\* GET /users/, /users/{user_id}, /users/{user_id}/viewing_history
HandleUsersQuery ==
    /\ http = NoRequest
    /\ \E user_id \in RequestUsers, fault \in {"none", "connect", "query"} :
          \/ http' = Request("get_all_users", NULL, 0, fault,
                             query_handler(TRUE, fault))
          \/ http' = Request("get_user", user_id, 0, fault,
                             query_handler(user_id \in Users, fault))
          \/ http' = Request("get_user_viewing_history", user_id, 0, fault,
                             query_handler(\E m \in MovieIds :
                                               <<user_id, m>> \in viewing_history,
                                           fault))
    /\ UNCHANGED <<service, scripts>>

\* GET /movies/, /movies/search, /movies/{movie_id}
HandleMoviesQuery ==
    /\ http = NoRequest
    /\ \E movie_id \in RequestIds, fault \in {"none", "connect", "query"} :
          \/ http' = Request("get_movies", NULL, 0, fault,
                             query_handler(TRUE, fault))
          \/ http' = Request("search_movies", NULL, 0, fault,
                             query_handler(TRUE, fault))
          \/ http' = Request("get_movie", NULL, movie_id, fault,
                             query_handler(movie_id \in MovieIds, fault))
    /\ UNCHANGED <<service, scripts>>

\* the recommender call of a recommendations handler between the
\* connection and the finally: a raise is answered 500, an empty list 404
recommender_handler(results, fault) ==
    IF fault = "connect" THEN {Outcome(500, "none", FALSE)}
    ELSE {Outcome(HttpStatus(r), "closed", FALSE) :
            r \in IF fault = "query" THEN QueryFailures(results) ELSE results}

\* GET /users/{user_id}/recommendations
HandleGetRecommendations ==
    /\ http = NoRequest
    /\ startup = "done"
    /\ \E user_id \in RequestUsers, fault \in {"none", "connect", "query"} :
          \E o \in recommender_handler(
                    get_content_based_recommendations(recommender, user_id,
                                                      DefaultLimit), fault) :
              http' = Request("get_recommendations", user_id, 0, fault, o)
    /\ UNCHANGED <<service, scripts>>

\* GET /movies/{movie_id}/similar
HandleGetSimilarMovies ==
    /\ http = NoRequest
    /\ startup = "done"
    /\ \E movie_id \in RequestIds, limit \in Limits,
          fault \in {"none", "connect", "query"} :
          \E o \in recommender_handler(
                    get_similar_movies(recommender, movie_id, limit), fault) :
              http' = Request("get_similar_movies", NULL, movie_id, fault, o)
    /\ UNCHANGED <<service, scripts>>

\* the response is sent and the request is over
Complete ==
    /\ http # NoRequest
    /\ http' = NoRequest
    /\ UNCHANGED <<service, scripts>>

NextApi ==
    \/ Startup
    \/ HandleAddViewingHistory
    \/ HandleUsersQuery
    \/ HandleMoviesQuery
    \/ HandleGetRecommendations
    \/ HandleGetSimilarMovies
    \/ Complete

SpecApi == InitApi /\ [][NextApi]_vars

(***************************************************************************)
(* scripts/generate_user_data.py: main.  gen holds the position in main,   *)
(* the connection and the cursor, the committed rows (db) and the rows     *)
(* written by the open transaction (tx).                                   *)
(***************************************************************************)
NoRows == [users |-> {}, viewing_history |-> {}]

\* the rows a query of the transaction sees
Visible(g) ==
    [users           |-> g.db.users \cup g.tx.users,
     viewing_history |-> g.db.viewing_history \cup g.tx.viewing_history]

\* the uuids fake.uuid4() can return; 1 may be the id of a stored user
UserIdPool == 1 .. MaxNumUsers

InitGen ==
    /\ ServiceOff
    /\ BATCH_SIZE = 1
    /\ csv_files = NoFiles
    /\ tables = EmptyTables
    /\ task = NotStarted
    /\ existing_ids = {}
    /\ existing_person_ids = {}
    /\ batches = <<>>
    /\ reading = None
    /\ http = NoRequest
    /\ \E stored \in {{}, {1}}, ids \in SUBSET UserIdPool,
          num_views \in 0 .. MaxNumViews, movie_ids \in {{}, {1}} :
          gen = [pc |-> "connect", conn |-> "none", cursor |-> "none",
                 db |-> [NoRows EXCEPT !.users = stored],
                 before |-> [NoRows EXCEPT !.users = stored],
                 tx |-> NoRows, users |-> ids, user_ids |-> {},
                 num_views |-> num_views, movie_ids |-> movie_ids,
                 commits |-> 0, raised |-> FALSE]

Raise(g) == [g EXCEPT !.pc = "except", !.raised = TRUE]

GenStep(g) ==
    /\ gen' = g
    /\ UNCHANGED <<service, BATCH_SIZE, importer, reading, http>>

\* conn = get_db_connection(); cursor = conn.cursor(...): with no
\* connection conn is None and conn.cursor raises AttributeError
GenConnect ==
    /\ gen.pc = "connect"
    /\ \/ GenStep([gen EXCEPT !.conn = "open", !.cursor = "open", !.pc = "users"])
       \/ GenStep(Raise(gen))

\* variant: the connection is in autocommit mode
GenerateUsers_Autocommit ==
    /\ gen.pc = "users"
    /\ \/ LET inserted == gen.users \ Visible(gen).users
          IN  GenStep([gen EXCEPT
                  !.db.users = @ \cup inserted,
                  !.user_ids = IF inserted # {} THEN inserted ELSE gen.users,
                  !.pc = "count"])
       \/ GenStep(Raise(gen))

\* generate_users: INSERT ... ON CONFLICT (id) DO NOTHING RETURNING id in
\* one batch; with no row returned the generated ids are used
GenerateUsers ==
    /\ gen.pc = "users"
    /\ \/ LET inserted == gen.users \ Visible(gen).users
          IN  GenStep([gen EXCEPT
                  !.tx.users = @ \cup inserted,
                  !.user_ids = IF inserted # {} THEN inserted ELSE gen.users,
                  !.pc = "count"])
       \/ GenStep(Raise(gen))

\* SELECT COUNT(*) FROM users; if not user_ids: raise ValueError
CountUsers ==
    /\ gen.pc = "count"
    /\ \/ GenStep(IF gen.user_ids = {} THEN Raise(gen)
                   ELSE [gen EXCEPT !.pc = "verify"])
       \/ GenStep(Raise(gen))

\* verify_movies: ValueError when the movies table is empty
VerifyMovies ==
    /\ gen.pc = "verify"
    /\ \/ GenStep(IF gen.movie_ids = {} THEN Raise(gen)
                   ELSE [gen EXCEPT !.pc = "history"])
       \/ GenStep(Raise(gen))

\* generate_viewing_history: num_views rows of a random user and a random
\* movie, inserted in one batch
GenerateViewingHistory ==
    /\ gen.pc = "history"
    /\ \/ IF gen.movie_ids = {}
          THEN GenStep(Raise(gen))
          ELSE \E rows \in [1 .. gen.num_views -> gen.user_ids \X gen.movie_ids] :
                  GenStep([gen EXCEPT !.tx.viewing_history = @ \cup Range(rows),
                                      !.pc = "commit"])
       \/ GenStep(Raise(gen))

\* conn.commit()
GenCommit ==
    /\ gen.pc = "commit"
    /\ \/ GenStep([gen EXCEPT !.db = Visible(gen), !.tx = NoRows,
                              !.commits = @ + 1, !.pc = "finally"])
       \/ GenStep(Raise(gen))

\* except psycopg2.Error / except Exception: if conn: conn.rollback()
GenRollback ==
    /\ gen.pc = "except"
    /\ GenStep([gen EXCEPT !.tx = IF gen.conn = "open" THEN NoRows ELSE @,
                           !.pc = "finally"])

\* finally: if cursor: cursor.close(); if conn: conn.close(), which
\* discards what an open transaction wrote
GenClose ==
    /\ gen.pc = "finally"
    /\ GenStep([gen EXCEPT
           !.cursor = IF @ = "open" THEN "closed" ELSE @,
           !.conn = IF @ = "open" THEN "closed" ELSE @,
           !.tx = NoRows,
           !.pc = "done"])

NextGen ==
    \/ GenConnect
    \/ GenerateUsers
    \/ CountUsers
    \/ VerifyMovies
    \/ GenerateViewingHistory
    \/ GenCommit
    \/ GenRollback
    \/ GenClose

SpecGen == InitGen /\ [][NextGen]_vars

(***************************************************************************)
(* Properties                                                              *)
(***************************************************************************)
\* the watched set of a user: every movie of its viewing history
Watched(user_id) == {m \in MovieIds : <<user_id, m>> \in viewing_history}

\* the ids of the snapshot
SnapshotIds == IF startup = "done" THEN Range(recommender.movie_ids) ELSE {}

\* the entries whose votes exceed the fallback threshold
Qualifying == {m \in MovieIds : movie_ratings[m].num_votes > PopularVotes}

Rating(m) == movie_ratings[m].avg_rating

\* i comes before j in the sequence s
Precedes(s, a, b) ==
    \E i, j \in DOMAIN s : i < j /\ s[i] = a /\ s[j] = b

\* C1: seen-exclusion.  No movie of the user's watched set is in the output
\* of recommend_for_user, for every limit >= 1 and on every path.
C1_SeenExclusion ==
    (res.op = "recommend" /\ res.limit >= 1)
        => Range(res.out) \cap Watched(res.arg) = {}

\* C2: similar_to on an id of the snapshot, with limit >= 1, returns at most
\* limit entries and never the queried id.
C2_SimilarBoundedNoSelf ==
    (res.op = "similar" /\ res.arg \in SnapshotIds /\ res.limit >= 1)
        => /\ Len(res.out) <= res.limit
           /\ res.arg \notin Range(res.out)

\* C2 happens: a query on a snapshot id that fills the limit with two entries
C2_Witness ==
    /\ res.op = "similar"
    /\ res.arg \in SnapshotIds
    /\ res.limit >= 2
    /\ Len(res.out) = res.limit

\* C3: on the personalized path the ids of the returned rows are, in order,
\* the ids selected from the score ranking.
C3_RankedOrderReturned ==
    (res.op = "recommend" /\ res.path = "personalized")
        => res.out = res.ranked

\* C4: similar_to returns the ids in the order in which they were selected
\* from the score ranking.
C4_SimilarOrderReturned ==
    (res.op = "similar" /\ res.path = "similar")
        => res.out = res.ranked

\* C5: a user whose history is empty or holds no movie of the snapshot gets
\* a sequence the popularity fallback returns for the same limit.
C5_FallbackIsPopular ==
    (res.op = "recommend" /\ Watched(res.arg) \cap SnapshotIds = {})
        => res.out \in {r.out : r \in get_popular_movies(res.limit)}

\* C5 happens: a history with no snapshot movie and a non-empty fallback
\* that the limit truncates
C5_Witness ==
    /\ res.op = "recommend"
    /\ Watched(res.arg) # {}
    /\ Watched(res.arg) \cap SnapshotIds = {}
    /\ res.limit >= 1
    /\ Len(res.out) = res.limit
    /\ Cardinality(Qualifying) > res.limit

\* the scenario catalog: A = "Action Thriller", B = "Action Comedy",
\* C = "Romance Drama", all in the snapshot
ScenarioA == CHOOSE m \in MovieIds : movies[m] = ActionThriller
ScenarioB == CHOOSE m \in MovieIds : movies[m] = ActionComedy
ScenarioC == CHOOSE m \in MovieIds : movies[m] = RomanceDrama

ScenarioCatalog ==
    /\ NumMovies = 3
    /\ movies = [m \in MovieIds |-> Cycle(CatalogPatterns[1], m)]
    /\ SnapshotIds = MovieIds

\* C6: in the scenario, a user who watched only A gets, for limit >= 2, B
\* before C and never A, whatever the ratings of B and C.
C6_ScenarioBBeforeC ==
    (/\ ScenarioCatalog
     /\ res.op = "recommend"
     /\ Watched(res.arg) = {ScenarioA}
     /\ res.limit >= 2)
        => /\ Precedes(res.out, ScenarioB, ScenarioC)
           /\ ScenarioA \notin Range(res.out)

\* C7: similar_to on an id absent from the snapshot index returns the empty
\* sequence and raises nothing.
C7_AbsentIdEmpty ==
    (res.op = "similar" /\ startup = "done" /\ res.arg \notin SnapshotIds)
        => /\ res.out = <<>>
           /\ res.raised = "none"

\* C7 happens: a stored movie below the snapshot threshold is queried while
\* the snapshot holds other movies
C7_Witness ==
    /\ res.op = "similar"
    /\ res.arg \in MovieIds \ SnapshotIds
    /\ SnapshotIds # {}
    /\ res.limit >= 1

\* C8: determinism.  A similar_to call that repeats the previous one, with
\* storage and model unchanged, returns the same ordered output.
C8_SimilarDeterministic ==
    [][(/\ res.op = "similar"
        /\ res'.op = "similar"
        /\ res'.arg = res.arg
        /\ res'.limit = res.limit
        /\ UNCHANGED <<storage, recommender, argsort_ties>>)
            => res'.out = res.out]_vars

\* the scores behind the ranking of the answered request
RankingScores ==
    IF res.op = "similar"
    THEN MovieScores(recommender, res.arg)
    ELSE ProfileScores(recommender,
             {recommender.movie_id_to_index[m] :
                 m \in user_movies_query(res.arg) \cap SnapshotIds})

\* C9: tie-break.  Two selected candidates of equal score stand in snapshot
\* order, the smaller position first.
C9_TiesInSnapshotOrder ==
    (res.path \in {"similar", "personalized"})
        => \A i, j \in DOMAIN res.ranked :
              LET pi == recommender.movie_id_to_index[res.ranked[i]]
                  pj == recommender.movie_id_to_index[res.ranked[j]]
              IN  (i < j /\ RankingScores[pi] = RankingScores[pj]) => pi < pj

\* C10: popular(limit), limit >= 1, returns entries above the fallback
\* threshold, in non-increasing rating order, the best min(limit, number
\* qualifying) of them: non-empty when one qualifies, empty when none does.
C10_PopularRanking ==
    (res.op = "popular" /\ res.limit >= 1)
        => /\ res.raised = "none"
           /\ Range(res.out) \subseteq Qualifying
           /\ Len(res.out) = Min(res.limit, Cardinality(Qualifying))
           /\ \A i, j \in DOMAIN res.out :
                 i < j => /\ res.out[i] # res.out[j]
                          /\ Rating(res.out[i]) >= Rating(res.out[j])
           /\ \A m \in Qualifying \ Range(res.out), i \in DOMAIN res.out :
                 Rating(res.out[i]) >= Rating(m)

\* C10 happens: more entries qualify than the limit admits, one entry does
\* not qualify, and the ratings differ
C10_Witness ==
    /\ res.op = "popular"
    /\ res.limit >= 1
    /\ Len(res.out) = res.limit
    /\ Cardinality(Qualifying) > res.limit
    /\ Qualifying # MovieIds
    /\ \E m \in Qualifying : Rating(m) < Rating(res.out[1])

\* the snapshot positions of the movies the user of the request has watched
WatchedPositions ==
    {recommender.movie_id_to_index[m] : m \in Watched(res.arg) \cap SnapshotIds}

\* the similarity of the vector at snapshot position i to the element-wise
\* mean of the watched vectors
MeanVectorSimilarity(i) ==
    Cosine(Mean(recommender.tfidf_matrix, WatchedPositions),
           recommender.tfidf_matrix[i])

C12_EmptyCatalogFailsStartup ==
    (startup # "pending" /\ snapshot_query = <<>>) =>
        /\ startup = "failed"
        /\ recommender = None
        /\ res = NoResponse

\* startup has run on storage where no movie passes the threshold
C12_Witness ==
    /\ startup = "failed"
    /\ snapshot_query = <<>>
    /\ \A m \in MovieIds : movie_ratings[m].num_votes <= SnapshotVotes

C14_QueryFailureIsTerminal ==
    res.failed > 0 =>
        /\ res.raised # "none"
        /\ Len(res.queries) = res.failed
        /\ res.out = <<>>
        /\ res.op \in {"similar", "recommend"} => HttpStatus(res) = 500

\* the history statement of a recommend call succeeded and its second
\* statement, fetching the rows of the selected movies, failed
C14_Witness ==
    /\ res.op = "recommend"
    /\ res.failed = 2
    /\ res.queries = <<"history", "metadata">>
    /\ Watched(res.arg) \cap SnapshotIds # {}
    /\ res.limit >= 1

\* C15: once the recommender is built, no step changes movie_ids,
\* movie_texts, the two indices or the matrix: not a request of any kind, in
\* any order, and not a change of the storage behind it.
C15_RecommenderFrozen ==
    [][startup = "done" => (startup' = "done" /\ recommender' = recommender)]_vars

\* a request answered from the recommender after the storage has moved away
\* from the snapshot it was built on
C15_Witness ==
    /\ startup = "done"
    /\ res.op \in {"similar", "recommend"}
    /\ res.out # <<>>
    /\ Range(snapshot_query) # Range(recommender.movie_ids)

\* C16: after the recommender is built, every snapshot entry occupies one
\* position and has one vector: movie_ids holds no id twice, both indices
\* are defined on exactly the snapshot and are inverse to each other, and
\* the matrix has one row per snapshot position.
C16_IndicesInverse ==
    startup = "done" =>
        LET n == Len(recommender.movie_ids)
        IN  /\ \A i, j \in 1..n :
                  recommender.movie_ids[i] = recommender.movie_ids[j] => i = j
            /\ DOMAIN recommender.index_to_movie_id = 1..n
            /\ DOMAIN recommender.movie_id_to_index = Range(recommender.movie_ids)
            /\ DOMAIN recommender.tfidf_matrix = 1..n
            /\ DOMAIN recommender.movie_texts = 1..n
            /\ \A i \in 1..n :
                  /\ recommender.index_to_movie_id[i] = recommender.movie_ids[i]
                  /\ recommender.movie_id_to_index[recommender.index_to_movie_id[i]] = i
            /\ \A m \in DOMAIN recommender.movie_id_to_index :
                  recommender.index_to_movie_id[recommender.movie_id_to_index[m]] = m

\* a snapshot of at least two entries that leaves a movie of the table out,
\* so that positions and ids differ
C16_Witness ==
    /\ startup = "done"
    /\ Len(recommender.movie_ids) >= 2
    /\ \E i \in DOMAIN recommender.movie_ids : recommender.movie_ids[i] # i

\* C17: a recommend call with a limit of at least 1 returns at most limit
\* entries, whether the entries come from the ranking or from the
\* popularity fallback.
C17_RecommendAtMostLimit ==
    (res.op = "recommend" /\ res.limit >= 1 /\ res.raised = "none") =>
        Len(res.out) <= res.limit

\* a personalized answer cut at the limit: more unseen snapshot entries
\* than the limit were there to select
C17_Witness ==
    /\ res.op = "recommend"
    /\ res.path = "personalized"
    /\ res.limit >= 1
    /\ Len(res.out) = res.limit
    /\ Cardinality(SnapshotIds \ Watched(res.arg)) > res.limit

\* the snapshot positions, as loaded, whose title and genres hold no term
NoTermPositions ==
    {i \in DOMAIN snapshot_query :
        Tokens(movie_text(movies[snapshot_query[i]])) = <<>>}

\* the scores a zero-vector entry must have: 0 against every other entry
\* and against the mean of any set of watched entries
ZeroVectorScores(i) ==
    LET matrix == recommender.tfidf_matrix
    IN  /\ \A t \in DOMAIN matrix[i] : matrix[i][t] = 0
        /\ \A j \in DOMAIN matrix \ {i} : Cosine(matrix[i], matrix[j]) = 0
        /\ \A W \in SUBSET (DOMAIN matrix) \ {{}} :
              Cosine(Mean(matrix, W), matrix[i]) = 0

\* C18: when the snapshot holds an entry whose text yields no term, the
\* recommender is built all the same, the entry has the zero vector, and
\* its similarity to every other entry and to any user profile is 0.
C18_ZeroVectorSafety ==
    (startup # "pending" /\ NoTermPositions # {}) =>
        /\ startup = "done"
        /\ \A i \in NoTermPositions : ZeroVectorScores(i)

\* C19: every entry a similar or a recommend request returns is a member
\* of the snapshot the recommender was built on, also after the storage
\* has changed.
C19_ReturnedInSnapshot ==
    (startup = "done" /\ res.op \in {"similar", "recommend"}) =>
        Range(res.out) \subseteq Range(recommender.movie_ids)

\* C20: the recommender changes in one step only, the startup step, which
\* runs once and answers no request; a request answered while
\* startup has not completed successfully gets status 500 and no statement
\* of a recommender method is executed for it; every other answer is
\* computed with the recommender in place.
C20_BuiltOnceAtStartup ==
    [][/\ startup' = startup => recommender' = recommender
       /\ startup' # startup => (startup = "pending" /\ res' = res)
       /\ (res' # res /\ res'.op # "none") =>
             IF startup = "done"
             THEN res'.path # "not_initialized"
             ELSE /\ HttpStatus(res') = 500
                  /\ res'.path = "not_initialized"
                  /\ res'.queries = <<>>
                  /\ res'.out = <<>>]_vars

\* a similar request answered after startup failed on storage that holds
\* movies
C20_Witness ==
    /\ startup = "failed"
    /\ res.op = "similar"
    /\ res.path = "not_initialized"
    /\ res.arg \in MovieIds
    /\ recommender = None

\* C26: when the user has watched movies of the snapshot and every
\* snapshot entry is in the watched set, a recommend call takes the all-seen
\* branch and returns what the popularity fallback returns for the same
\* limit.
C26_AllSeenFallsBack ==
    (res.op = "recommend" /\ SnapshotIds # {} /\ SnapshotIds \subseteq Watched(res.arg)) =>
        /\ res.path = "all_seen"
        /\ res.out \in {r.out : r \in get_popular_movies(res.limit)}

\* every snapshot entry is watched and the fallback has entries to return
C26_Witness ==
    /\ res.op = "recommend"
    /\ Cardinality(SnapshotIds) >= 2
    /\ SnapshotIds \subseteq Watched(res.arg)
    /\ res.limit >= 1
    /\ res.out # <<>>

\* the rows of all batches, in the order they were yielded
RECURSIVE Concat(_)
Concat(ss) == IF ss = <<>> THEN <<>> ELSE Head(ss) \o Concat(Tail(ss))

\* the non-empty data rows of the file read, in file order
DataRows ==
    LET rows == IF reading.has_header /\ reading.file # <<>>
                THEN Tail(reading.file) ELSE reading.file
    IN  SelectSeq(rows, LAMBDA row : row # <<>>)

\* C23: read_csv_in_batches yields, in file order, the first
\* min(n, max_entries) of the n non-empty data rows (all of them when
\* max_entries is None), so never more than max_entries rows; no batch is
\* empty and every batch but the last has BATCH_SIZE rows.
C23_BatchesCoverFirstRows ==
    reading.done =>
        LET n == Len(DataRows)
            expected == IF reading.max_entries = NoInt THEN n
                        ELSE Min(n, reading.max_entries[1])
        IN  /\ Concat(reading.yielded) = SubSeq(DataRows, 1, expected)
            /\ reading.max_entries # NoInt =>
                  Len(Concat(reading.yielded)) <= reading.max_entries[1]
            /\ \A b \in DOMAIN reading.yielded :
                  /\ reading.yielded[b] # <<>>
                  /\ b < Len(reading.yielded) => Len(reading.yielded[b]) = BATCH_SIZE

\* C21: a second run of process_all_files on the same CSV files leaves
\* the movies, persons, movie_ratings and movie_crew tables with exactly
\* the rows they had after the first run.
C21_SecondRunKeepsTables ==
    (task.run = 2 /\ task.phase = "complete") => tables = task.first_run

\* the file the loop over tasks is at
CurrentFile == tasks[task.file]

\* the rows the workers of the current file hold for insertion
Submitted ==
    UNION {{batches[b].data_batch[i] : i \in DOMAIN batches[b].data_batch} :
           b \in DOMAIN batches}

\* every rating or crew row held for insertion names a committed movie,
\* and every crew row a committed person
ReferencesCommitted ==
    (task.phase = "running" /\ CurrentFile \in {"title_ratings", "title_crew"})
        => \A row \in Submitted :
              /\ row[1] \in Ids(tables.movies)
              /\ CurrentFile = "title_crew" => row[2] \in Ids(tables.persons)

\* C22: the files are processed in the order persons, movies, ratings,
\* crew; the loop moves to the next file only when every batch of the
\* current file is done; and every rating or crew row submitted for
\* insertion references a movie id (for crew also a person id) already
\* committed in the database.
C22_OrderedAndReferencesCommitted ==
    [][/\ CurrentFile' # CurrentFile =>
            /\ AllBatchesDone
            /\ <<CurrentFile, CurrentFile'>> \in
                 {<<"name_basics", "title_basics">>,
                  <<"title_basics", "title_ratings">>,
                  <<"title_ratings", "title_crew">>,
                  <<"title_crew", "name_basics">>}
            /\ CurrentFile = "title_crew" => task'.run = task.run + 1
       /\ task.file = 1 => CurrentFile = "name_basics"
       /\ ReferencesCommitted']_vars

\* a crew row and, earlier, a rating row were submitted for insertion
C22_Witness ==
    /\ task.phase = "running"
    /\ CurrentFile = "title_crew"
    /\ tables.movie_ratings # {}
    /\ \E b \in DOMAIN batches :
          batches[b].pc = "insert" /\ batches[b].data_batch # <<>>

\* positions <<b, i>> of the rows with this id in the batches of the
\* current file, and those among them that worker b has put in data_batch
Occurrences(id) ==
    UNION {{<<b, i>> : i \in {j \in DOMAIN batches[b].rows : batches[b].rows[j][1] = id}} :
           b \in DOMAIN batches}

Claims(id) ==
    UNION {{<<b, i>> : i \in {j \in DOMAIN batches[b].data_batch :
                                 batches[b].data_batch[j][1] = id}} :
           b \in DOMAIN batches}

RowsProcessed == \A b \in DOMAIN batches : batches[b].pc # "rows"

C29_ExistingIdsAreRows ==
    (task.phase = "running" /\ CurrentFile = "title_basics" /\ AllBatchesDone)
        => existing_ids \subseteq Ids(tables.movies)

\* C24: add_viewing_history inserts a row only when both the user id and
\* the movie id were found (answering 201); when the user or the movie is
\* missing it answers 404, when the insert fails it answers 500, and in
\* each of these cases the viewing_history table is unchanged.
C24_InsertOnlyWhenBothFound ==
    [][(http = NoRequest /\ http'.handler = "add_viewing_history") =>
          LET r == http'
              found == r.user_id \in Users /\ r.movie_id \in MovieIds
              row == <<r.user_id, r.movie_id>>
          IN  /\ r.committed <=> r.status = 201
              /\ r.committed => found
              /\ viewing_history' =
                    IF r.committed THEN viewing_history \cup {row}
                    ELSE viewing_history
              /\ (~found /\ r.fault \in {"none", "insert"}) => r.status = 404
              /\ (found /\ r.fault = "insert") => r.status = 500
              /\ (found /\ r.fault = "none") => r.status = 201]_vars

\* a request naming a known user and a movie no row holds was answered 404
\* while the table held a row
C24_Witness ==
    /\ http.handler = "add_viewing_history"
    /\ http.user_id \in Users
    /\ http.movie_id \notin MovieIds
    /\ http.status = 404
    /\ viewing_history # {}

\* C27: when a handler has returned or raised, the connection it obtained
\* is closed, whatever the outcome: success, 404 (user or movie not found
\* in add_viewing_history included) or 500.
C27_ConnectionClosed ==
    http # NoRequest => (http.conn # "open" /\ http.cursor # "open")

\* C25: generate_user_data.main commits at most once, and only when users
\* and viewing history were both generated; the committed rows change only
\* by that commit; when a step raised, main ends with the committed rows
\* it started with; and it ends with the cursor and the connection closed
\* (or never opened).
C25_SingleCommitOrRollback ==
    /\ gen.commits <= 1
    /\ gen.commits = 1 => (gen.pc \in {"finally", "done"} /\ ~gen.raised)
    /\ gen.commits = 0 => gen.db = gen.before
    /\ gen.commits = 1 => gen.db.users = gen.before.users \cup gen.users
    /\ gen.pc = "done" =>
          /\ gen.conn # "open"
          /\ gen.cursor # "open"
          /\ gen.tx = NoRows
          /\ gen.raised => gen.db = gen.before
          /\ ~gen.raised => gen.commits = 1

\* a step raised after new users were inserted, and main has ended
C25_Witness ==
    /\ gen.pc = "done"
    /\ gen.raised
    /\ gen.user_ids # {}
    /\ gen.users \ gen.before.users # {}
    /\ gen.movie_ids # {}
    /\ gen.conn = "closed"

====
